---- MODULE Spec2Model ----
(***************************************************************************)
(* GeoTiler tile download: geotiler/tile/io.py.                            *)
(*                                                                         *)
(* fetch_tiles(tiles) submits fetch_tile(t) for every tile to the event    *)
(* loop's default executor, gathers the futures with                       *)
(* return_exceptions=True, logs a warning per tile with an error and       *)
(* returns the gathered list.  fetch_tile(tile) sends one HTTP request     *)
(* and turns an HTTPError into a tile with an error; every other           *)
(* exception leaves fetch_tile.                                            *)
(*                                                                         *)
(* Further parts: MapProvider as tests/test_provider.py uses it            *)
(* (SpecProvider), the refresh event of examples/ex-qt-gps.py (SpecQt)     *)
(* and the zoom handlers of examples/ex-opencv.py (SpecCv).                *)
(***************************************************************************)
EXTENDS Integers, Sequences, FiniteSets, TLC

\* ------------------------------------------------------------------------
\* Bounds of the model
\* ------------------------------------------------------------------------
\* longest input sequence of tiles
MaxTiles == 3
\* number of worker threads of the executor (concurrent.futures default pool)
PoolSize == 2
\* number of successive calls of fetch_tiles on the same tiles
MaxCalls == 2
\* most set() calls on the refresh event between two clear() calls
MaxSets == 3
\* renders of the Qt example after which no further input arrives
MaxRenders == 3
\* update_map calls of the OpenCV example after which no further input arrives
MaxUpdates == 4

\* ------------------------------------------------------------------------
\* Values
\* ------------------------------------------------------------------------
\* Python's None; an optional value is None or Some(x)
None == {}
Some(x) == {x}
The(o) == CHOOSE x \in o : TRUE

\* tile positions (column, row, zoom) the inputs are drawn from
Coordinates == {<<0, 0, 1>>, <<1, 0, 1>>}

\* the resolved address of a tile, as a sequence of text pieces
UrlOf(c) == IF c = <<0, 0, 1>> THEN <<"http://a.tile/1/0/0.png">>
                               ELSE <<"http://a.tile/1/1/0.png">>

\* a tile as the caller hands it in: no image, no error yet
Descriptor(c) == [coordinate |-> c, url |-> UrlOf(c), img |-> None, error |-> None]
Descriptors == {Descriptor(c) : c \in Coordinates}

\* all sequences over S of length 0..n
SeqsUpTo(S, n) == UNION {[1..k -> S] : k \in 0..n}

\* response bodies: b'' and a two byte payload
Bodies == {<<>>, <<137, 80>>}
\* status codes of an HTTPError
HTTPCodes == {404, 500}
\* exceptions of urlopen() that are not HTTPError
OpenErrors == {"URLError", "timeout"}

\* What the network does to one request: urlopen() returns a response whose
\* read() gives the body or raises, or urlopen() raises.
Outcomes ==
    {[open |-> "response", code |-> 200, read |-> "ok", body |-> b] : b \in Bodies}
    \cup {[open |-> "response", code |-> 200, read |-> "IncompleteRead", body |-> <<>>]}
    \cup {[open |-> "HTTPError", code |-> c, read |-> "-", body |-> <<>>] : c \in HTTPCodes}
    \cup {[open |-> e, code |-> 0, read |-> "-", body |-> <<>>] : e \in OpenErrors}

\* str(int)
Str(n) == CASE n = 404 -> "404" [] n = 500 -> "500" [] n = 200 -> "200" [] OTHER -> "0"

\* ------------------------------------------------------------------------
\* io.py, module level
\* ------------------------------------------------------------------------
HEADERS == <<[key |-> "User-Agent", value |-> "GeoTiler/0.12.0"]>>

FMT_DOWNLOAD_LOG(err) == <<"Cannot download a tile due to error: ">> \o err.msg

\* the message without the status code
FMT_DOWNLOAD_ERROR_NoCode(url, code) == <<"Unable to download ">> \o url

FMT_DOWNLOAD_ERROR(url, code) ==
    <<"Unable to download ">> \o url \o <<" (HTTP status ", Str(code), ")">>

\* ValueError(msg); str() of it is msg
ValueError(msg) == [type |-> "ValueError", msg |-> msg]

\* urllib.request.Request.add_header stores the header under key.capitalize()
Capitalize(k) == IF k = "User-Agent" THEN "User-agent" ELSE k

RECURSIVE add_headers(_, _)
add_headers(hs, req) ==
    IF hs = <<>> THEN req
    ELSE add_headers(Tail(hs),
            [req EXCEPT !.headers =
                {h \in @ : h.key # Capitalize(Head(hs).key)}
                \cup {[key |-> Capitalize(Head(hs).key), value |-> Head(hs).value]}])

\* a request built without the loop over HEADERS
BuildRequest_NoHeaders(tile) == [url |-> tile.url, headers |-> {}]

\* fetch_tile, lines 53-55: the request that urlopen() sends
BuildRequest(tile) == add_headers(HEADERS, [url |-> tile.url, headers |-> {}])

\* a fresh tile built from url, img and error only: the position is lost
Replace_Fresh(tile, img, error) ==
    [coordinate |-> <<0, 0, 0>>, url |-> tile.url, img |-> img, error |-> error]

\* namedtuple _replace(img=..., error=...)
Replace(tile, img, error) == [tile EXCEPT !.img = img, !.error = error]

Return(v) == [kind |-> "return", value |-> v]
Raise(e) == [kind |-> "raise", exc |-> e]

\* fetch_tile with every other exception swallowed: the tile comes back as it
\* went in
fetch_tile_Swallow(tile, o) ==
    IF o.open = "HTTPError"
    THEN Return(Replace(tile, None,
                        Some(ValueError(FMT_DOWNLOAD_ERROR(tile.url, o.code)))))
    ELSE IF o.open # "response" \/ o.read # "ok" THEN Return(tile)
    ELSE Return(Replace(tile, Some(o.body), None))

\* fetch_tile with `img=response.read() or None`: an empty body gives no image
fetch_tile_EmptyIsNone(tile, o) ==
    IF o.open = "HTTPError"
    THEN Return(Replace(tile, None,
                        Some(ValueError(FMT_DOWNLOAD_ERROR(tile.url, o.code)))))
    ELSE IF o.open # "response" THEN Raise(o.open)
    ELSE IF o.read # "ok" THEN Raise(o.read)
    ELSE Return(Replace(tile, IF o.body = <<>> THEN None ELSE Some(o.body), None))

\* fetch_tile, lines 57-65: what the call gives for a network outcome o
fetch_tile(tile, o) ==
    IF o.open = "HTTPError"
    THEN Return(Replace(tile, None,
                        Some(ValueError(FMT_DOWNLOAD_ERROR(tile.url, o.code)))))
    ELSE IF o.open # "response" THEN Raise(o.open)
    ELSE IF o.read # "ok" THEN Raise(o.read)
    ELSE Return(Replace(tile, Some(o.body), None))

\* asyncio.gather(..., return_exceptions=True): the slot of a future holds the
\* value fetch_tile returned, or the exception object fetch_tile raised
GatherItem(res) ==
    IF res.kind = "return" THEN res.value ELSE [exception |-> res.exc]

\* getattr: a Tile has the attribute `error`, an exception object has not
HasAttr(x, a) == a \in DOMAIN x

\* truth value of t.error: None is false, an exception instance is true
Truthy(x) == x # None

\* fetch_tiles, lines 97-98: the warnings one gathered item adds to the log
LogEntries(t) ==
    IF Truthy(t.error) THEN <<FMT_DOWNLOAD_LOG(The(t.error))>> ELSE <<>>

\* ------------------------------------------------------------------------
\* State
\* ------------------------------------------------------------------------
VARIABLES
    tiles,       \* the argument of fetch_tiles: the input sequence of tiles
    downloader,  \* the downloader the caller holds (examples/ex-qt-gps.py)
    pc,          \* where the coroutine fetch_tiles is
    submitted,   \* number of tiles handed to the executor so far
    fut,         \* per input position, the state of its executor future
    requests,    \* per input position, the HTTP requests sent for it so far
    gathered,    \* the local `tiles` after the await: result of gather
    logIdx,      \* position of the logging loop in gathered
    log,         \* warning-level log entries the current call emitted, in order
    ret,         \* None, or Some(the collection fetch_tiles returned)
    raised,      \* None, or Some(the exception fetch_tiles raised)
    call,        \* which call of fetch_tiles on these tiles this is (1, 2, ...)
    \* tests/test_provider.py
    config,      \* the configuration mapping handed to MapProvider
    provider,    \* None, or Some(the MapProvider built from config)
    \* examples/ex-qt-gps.py
    event,       \* widget.refresh_map, the asyncio.Event: set or clear
    rpc,         \* where the coroutine refresh_map is
    pendingSets, \* set() calls since the event was last cleared
    mapVersion,  \* number of changes made to widget.map so far
    snapshot,    \* mapVersion when the latest render started
    renders,     \* number of renders started so far
    stopped,     \* loop.stop() was called
    \* examples/ex-opencv.py
    zoom,        \* kaart.mm.zoom
    zoomBefore,  \* kaart.mm.zoom when the handler that ran last was entered
    updates,     \* number of update_map calls so far
    lastCall     \* the handler of MapObject that ran last

fetchVars == <<tiles, downloader, pc, submitted, fut, requests, gathered, logIdx,
               log, ret, raised, call>>
provVars == <<config, provider>>
qtVars == <<event, rpc, pendingSets, mapVersion, snapshot, renders, stopped>>
cvVars == <<zoom, zoomBefore, updates, lastCall>>

vars == <<fetchVars, provVars, qtVars, cvVars>>

\* the parts of the repository a specification does not run stay as they are
\* before they are started
ProvIdle == config = None /\ provider = None
QtIdle ==
    /\ event = FALSE
    /\ rpc = "idle"
    /\ pendingSets = 0
    /\ mapVersion = 0
    /\ snapshot = 0
    /\ renders = 0
    /\ stopped = FALSE
CvIdle == zoom = 0 /\ zoomBefore = 0 /\ updates = 0 /\ lastCall = "none"

N == Len(tiles)

\* downloaders a caller may hold: none (the library default) or the
\* redis-backed one of the Qt example
Downloaders == {"default", "redis_downloader"}

NoFuture == [st |-> "none"]

\* the executor is handed whatever downloader the caller holds
Task_Injected(t) ==
    [fn |-> IF downloader = "default" THEN "fetch_tile" ELSE downloader, arg |-> t]

\* fetch_tiles, line 88: the callable and the argument handed to the executor
Task(t) == [fn |-> "fetch_tile", arg |-> t]

Running == {i \in 1..N : fut[i].st = "running"}
AllSettled == \A i \in 1..N : fut[i].st = "done"

Init ==
    /\ tiles \in SeqsUpTo(Descriptors, MaxTiles)
    /\ downloader \in Downloaders
    /\ pc = "submit"
    /\ submitted = 0
    /\ fut = [i \in 1..Len(tiles) |-> NoFuture]
    /\ requests = [i \in 1..Len(tiles) |-> <<>>]
    /\ gathered = <<>>
    /\ logIdx = 1
    /\ log = <<>>
    /\ ret = None
    /\ raised = None
    /\ call = 1
    /\ ProvIdle /\ QtIdle /\ CvIdle

\* lines 88-90: gather(*tasks) draws the generator, one run_in_executor per tile
Submit ==
    /\ pc = "submit"
    /\ submitted < N
    /\ submitted' = submitted + 1
    /\ fut' = [fut EXCEPT ![submitted + 1] =
                 [st |-> "queued", task |-> Task(tiles[submitted + 1])]]
    /\ UNCHANGED <<tiles, downloader, pc, requests, gathered, logIdx, log, ret, raised, call>>
    /\ UNCHANGED <<provVars, qtVars, cvVars>>

\* lines 88-90: run_in_executor raises (the pool cannot start a thread, or the
\* executor was shut down); the exception leaves fetch_tiles
SubmitFail ==
    /\ pc = "submit"
    /\ submitted < N
    /\ pc' = "raised"
    /\ raised' = Some("RuntimeError")
    /\ UNCHANGED <<tiles, downloader, submitted, fut, requests, gathered, logIdx, log, ret, call>>
    /\ UNCHANGED <<provVars, qtVars, cvVars>>

\* the coroutine awaits as soon as the first tile is submitted
Await_First ==
    /\ pc = "submit"
    /\ (submitted = N \/ submitted >= 1)
    /\ pc' = "await"
    /\ UNCHANGED <<tiles, downloader, submitted, fut, requests, gathered, logIdx, log, ret, raised, call>>
    /\ UNCHANGED <<provVars, qtVars, cvVars>>

\* line 90: every tile is submitted, the coroutine suspends in the await
Await ==
    /\ pc = "submit"
    /\ submitted = N
    /\ pc' = "await"
    /\ UNCHANGED <<tiles, downloader, submitted, fut, requests, gathered, logIdx, log, ret, raised, call>>
    /\ UNCHANGED <<provVars, qtVars, cvVars>>

\* a pool thread takes a queued call; fetch_tile lines 53-58 up to the request
\* being on the wire
WorkerStart(i) ==
    /\ fut[i].st = "queued"
    /\ fut[i].task.fn = "fetch_tile"
    /\ Cardinality(Running) < PoolSize
    /\ fut' = [fut EXCEPT ![i] = [st |-> "running", task |-> fut[i].task]]
    /\ requests' = [requests EXCEPT ![i] = Append(@, BuildRequest(fut[i].task.arg))]
    /\ UNCHANGED <<tiles, downloader, pc, submitted, gathered, logIdx, log, ret, raised, call>>
    /\ UNCHANGED <<provVars, qtVars, cvVars>>

\* a failed retrieval is queued again instead of being settled
WorkerFinish_Retry(i) ==
    /\ fut[i].st = "running"
    /\ \E o \in Outcomes :
         fut' = [fut EXCEPT ![i] =
                   IF o.open = "response" /\ o.read = "ok"
                   THEN [st |-> "done", task |-> fut[i].task, outcome |-> o,
                         res |-> fetch_tile(fut[i].task.arg, o)]
                   ELSE [st |-> "queued", task |-> fut[i].task]]
    /\ UNCHANGED <<tiles, downloader, pc, submitted, requests, gathered, logIdx, log, ret, raised, call>>
    /\ UNCHANGED <<provVars, qtVars, cvVars>>

\* the warning is logged by the pool thread as soon as its retrieval fails
WorkerFinish_Logs(i) ==
    /\ fut[i].st = "running"
    /\ \E o \in Outcomes :
         /\ fut' = [fut EXCEPT ![i] =
                      [st |-> "done", task |-> fut[i].task, outcome |-> o,
                       res |-> fetch_tile(fut[i].task.arg, o)]]
         /\ log' = IF fetch_tile(fut[i].task.arg, o).kind = "return"
                   THEN log \o LogEntries(fetch_tile(fut[i].task.arg, o).value)
                   ELSE log
    /\ UNCHANGED <<tiles, downloader, pc, submitted, requests, gathered, logIdx, ret, raised, call>>
    /\ UNCHANGED <<provVars, qtVars, cvVars>>

\* the network answers; fetch_tile lines 58-65 finish and the future is set
WorkerFinish(i) ==
    /\ fut[i].st = "running"
    /\ \E o \in Outcomes :
         fut' = [fut EXCEPT ![i] =
                   [st |-> "done", task |-> fut[i].task, outcome |-> o,
                    res |-> fetch_tile(fut[i].task.arg, o)]]
    /\ UNCHANGED <<tiles, downloader, pc, submitted, requests, gathered, logIdx, log, ret, raised, call>>
    /\ UNCHANGED <<provVars, qtVars, cvVars>>

\* line 90: all futures are done, the await gives the list in input order
Gather ==
    /\ pc = "await"
    /\ AllSettled
    /\ gathered' = [i \in 1..N |-> GatherItem(fut[i].res)]
    /\ logIdx' = 1
    /\ pc' = "log"
    /\ UNCHANGED <<tiles, downloader, submitted, fut, requests, log, ret, raised, call>>
    /\ UNCHANGED <<provVars, qtVars, cvVars>>

\* lines 96-98: one round of the logging loop
LogStep ==
    /\ pc = "log"
    /\ logIdx <= Len(gathered)
    /\ IF HasAttr(gathered[logIdx], "error")
       THEN /\ log' = log \o LogEntries(gathered[logIdx])
            /\ logIdx' = logIdx + 1
            /\ UNCHANGED <<pc, raised>>
       ELSE /\ pc' = "raised"
            /\ raised' = Some("AttributeError")
            /\ UNCHANGED <<log, logIdx>>
    /\ UNCHANGED <<tiles, downloader, submitted, fut, requests, gathered, ret, call>>
    /\ UNCHANGED <<provVars, qtVars, cvVars>>

\* line 100
ReturnTiles ==
    /\ pc = "log"
    /\ logIdx > Len(gathered)
    /\ ret' = Some(gathered)
    /\ pc' = "done"
    /\ UNCHANGED <<tiles, downloader, submitted, fut, requests, gathered, logIdx, log, raised, call>>
    /\ UNCHANGED <<provVars, qtVars, cvVars>>

Next ==
    \/ Submit
    \/ SubmitFail
    \/ Await
    \/ \E i \in 1..N : WorkerStart(i)
    \/ \E i \in 1..N : WorkerFinish(i)
    \/ Gather
    \/ LogStep
    \/ ReturnTiles

Spec == Init /\ [][Next]_vars

\* the steps of the coroutine fetch_tiles on the event loop
Coordinator == Submit \/ SubmitFail \/ Await \/ Gather \/ LogStep \/ ReturnTiles

\* one call of fetch_tiles where the event loop keeps running the coroutine,
\* the pool keeps starting queued calls while a thread is free, and every
\* request is answered
SpecFair ==
    /\ Spec
    /\ WF_vars(Coordinator)
    /\ WF_vars(\E i \in 1..N : WorkerStart(i))
    /\ WF_vars(\E i \in 1..N : WorkerFinish(i))

\* the second call answers from what the first call returned
NewCall_Memo ==
    /\ pc = "done"
    /\ call < MaxCalls
    /\ call' = call + 1
    /\ UNCHANGED <<tiles, downloader, pc, submitted, fut, requests, gathered, logIdx, log, ret, raised>>
    /\ UNCHANGED <<provVars, qtVars, cvVars>>

\* lines 67-82: the caller calls fetch_tiles again with the same tiles, after
\* a call that ran to its end; every local of the coroutine is fresh
NewCall ==
    /\ pc \in {"done", "raised"}
    /\ AllSettled
    /\ call < MaxCalls
    /\ call' = call + 1
    /\ pc' = "submit"
    /\ submitted' = 0
    /\ fut' = [i \in 1..N |-> NoFuture]
    /\ gathered' = <<>>
    /\ logIdx' = 1
    /\ log' = <<>>
    /\ ret' = None
    /\ raised' = None
    /\ UNCHANGED <<tiles, downloader, requests>>
    /\ UNCHANGED <<provVars, qtVars, cvVars>>

NextTwoCalls ==
    \/ Next
    \/ NewCall

\* the caller of the successive calls holds the library's default downloader
InitTwoCalls == Init /\ downloader = "default"

\* successive calls of fetch_tiles on the same tiles
SpecTwoCalls == InitTwoCalls /\ [][NextTwoCalls]_vars

\* ------------------------------------------------------------------------
\* Properties
\* ------------------------------------------------------------------------
\* the call of fetch_tiles is over: it returned or it raised
Finished == pc \in {"done", "raised"}
\* the executor refused a submission
SchedulingFailed == raised = Some("RuntimeError")

\* classes of network outcome
Succeeded(o) == o.open = "response" /\ o.read = "ok"
StatusCoded(o) == o.open = "HTTPError"
OtherFailure(o) == ~Succeeded(o) /\ ~StatusCoded(o)

Done(i) == fut[i].st = "done"
Returned == ret # None
Result == The(ret)

IsTileResult(x) == DOMAIN x = {"coordinate", "url", "img", "error"}
ExactlyOne(t) == (t.img # None /\ t.error = None) \/ (t.img = None /\ t.error # None)

\* sub occurs in s as a run of consecutive pieces
Contains(s, sub) ==
    \E k \in 1..(Len(s) - Len(sub) + 1) : SubSeq(s, k, k + Len(sub) - 1) = sub

\* C1: whenever a call of fetch_tiles is over and the executor accepted every
\* submission, whatever the retrievals did and in whatever order they ended,
\* it has returned exactly N results and result[i] has the coordinate of
\* tiles[i].
C1_OrderAndLength ==
    (Finished /\ ~SchedulingFailed) =>
        /\ Returned
        /\ Len(Result) = N
        /\ \A i \in 1..N :
             /\ HasAttr(Result[i], "coordinate")
             /\ Result[i].coordinate = tiles[i].coordinate

\* C2: a failing retrieval of either class never makes fetch_tiles fail: the
\* call returns, the slot of a failed retrieval is a tile carrying an error,
\* and the slot of a retrieval that succeeded is that retrieval's tile.
C2_FailureIsolation ==
    (Finished /\ ~SchedulingFailed) =>
        /\ Returned
        /\ \A i \in 1..N :
             IF Succeeded(fut[i].outcome)
             THEN Result[i] = Replace(tiles[i], Some(fut[i].outcome.body), None)
             ELSE /\ IsTileResult(Result[i])
                  /\ Result[i].error # None

\* C3: fetch_tile never raises: for a failure that is not status-coded it
\* returns a tile whose error is set.
C3_FetchTileNeverRaises ==
    \A i \in 1..N :
        Done(i) =>
            /\ fut[i].res.kind = "return"
            /\ OtherFailure(fut[i].outcome) => fut[i].res.value.error # None

\* C4: every value fetch_tile returns, and every element of the collection
\* fetch_tiles returns, is a tile in which exactly one of img and error is
\* present (is not None).
C4_ExactlyOneOfImageError ==
    /\ \A i \in 1..N :
         (Done(i) /\ fut[i].res.kind = "return") =>
             (IsTileResult(fut[i].res.value) /\ ExactlyOne(fut[i].res.value))
    /\ Returned =>
         \A j \in 1..Len(Result) : IsTileResult(Result[j]) /\ ExactlyOne(Result[j])

\* fetch_tiles returned a collection holding a tile with an image and a tile
\* with an error
C4_Witness ==
    /\ pc = "done"
    /\ \E i, j \in 1..Len(Result) : Result[i].img # None /\ Result[j].error # None

\* C5: a retrieval that fails with a status-coded error gives a tile with no
\* image and an error whose text contains the tile's URL and the status code;
\* a returned collection holds that tile at the retrieval's position.
C5_StatusCodedShape ==
    \A i \in 1..N :
        (Done(i) /\ StatusCoded(fut[i].outcome)) =>
            /\ fut[i].res.kind = "return"
            /\ fut[i].res.value.img = None
            /\ fut[i].res.value.error # None
            /\ Contains(The(fut[i].res.value.error).msg, tiles[i].url)
            /\ Contains(The(fut[i].res.value.error).msg, <<Str(fut[i].outcome.code)>>)
            /\ Returned => Result[i] = fut[i].res.value

\* fetch_tiles returned and one retrieval had failed with a status code
C5_Witness ==
    /\ pc = "done"
    /\ \E i \in 1..N : StatusCoded(fut[i].outcome)

\* C6 as stated: a retrieval that succeeds, whatever the length of the body,
\* gives a tile with a non-empty image and no error.
C6_NonEmptyImage ==
    \A i \in 1..N :
        (Done(i) /\ Succeeded(fut[i].outcome)) =>
            /\ fut[i].res.kind = "return"
            /\ fut[i].res.value.img # None
            /\ The(fut[i].res.value.img) # <<>>
            /\ fut[i].res.value.error = None

\* C6 amended: a retrieval that succeeds gives a tile with no error whose
\* image is present and is exactly the body received, empty when the body is
\* empty; a returned collection holds that tile at the retrieval's position.
C6_ImageIsBody ==
    \A i \in 1..N :
        (Done(i) /\ Succeeded(fut[i].outcome)) =>
            /\ fut[i].res.kind = "return"
            /\ fut[i].res.value.img = Some(fut[i].outcome.body)
            /\ fut[i].res.value.error = None
            /\ Returned => Result[i] = fut[i].res.value

\* fetch_tiles returned and one retrieval had succeeded with an empty body
C6_Witness ==
    /\ pc = "done"
    /\ \E i \in 1..N : Succeeded(fut[i].outcome) /\ fut[i].outcome.body = <<>>

\* positions whose retrieval produced a tile with its error set
Errored == {i \in 1..N : Done(i) /\ fut[i].res.kind = "return"
                                 /\ fut[i].res.value.error # None}

\* C7: when a call of fetch_tiles is over, the number of warnings it logged
\* is the number of results whose error is set, and each such result's error
\* text is in one of the warnings.
C7_OneWarningPerError ==
    (Finished /\ ~SchedulingFailed) =>
        /\ Len(log) = Cardinality(Errored)
        /\ \A i \in Errored :
             \E k \in 1..Len(log) :
                 Contains(log[k], The(fut[i].res.value.error).msg)

\* C8: a scheduling failure makes fetch_tiles raise with no collection
\* returned, and nothing but a scheduling failure makes fetch_tiles raise.
C8_OnlySchedulingPropagates ==
    /\ SchedulingFailed => (pc = "raised" /\ ~Returned)
    /\ raised # None => SchedulingFailed

\* the retrieval function the caller's downloader stands for
InjectedFn == IF downloader = "default" THEN "fetch_tile" ELSE downloader

Lower(k) == IF k \in {"User-Agent", "User-agent"} THEN "user-agent" ELSE k

HasIdentifyingHeader(req) ==
    \E h \in req.headers :
        /\ Lower(h.key) = Lower("User-Agent")
        /\ h.value = "GeoTiler/0.12.0"

\* C10: every retrieval a pool thread has started has sent its request, and
\* every request sent carries the User-Agent header of HEADERS.
C10_HeaderOnEveryRequest ==
    \A i \in 1..N :
        /\ fut[i].st \in {"running", "done"} => Len(requests[i]) >= 1
        /\ \A k \in 1..Len(requests[i]) : HasIdentifyingHeader(requests[i][k])

\* all requests of a batch of at least two tiles are on the wire
C10_Witness ==
    /\ N >= 2
    /\ \A i \in 1..N : Len(requests[i]) = 1

\* C12: fetch_tiles awaits only after all N tiles are handed to the executor;
\* a submission never waits for an earlier retrieval; a queued retrieval can
\* start whenever a pool thread is free; and fetch_tiles gets past its await
\* only when every retrieval has completed or failed.
C12_FireAllThenGather ==
    /\ pc = "await" => submitted = N
    /\ (pc = "submit" /\ submitted < N) => ENABLED Submit
    /\ \A i \in 1..N :
         (fut[i].st = "queued" /\ Cardinality(Running) < PoolSize)
             => ENABLED WorkerStart(i)
    /\ (pc \in {"log", "done"} \/ Returned) => AllSettled

\* more tiles than pool threads are all handed over, none has finished, and
\* the coroutine is in its await
C12_Witness ==
    /\ pc = "await"
    /\ N > PoolSize
    /\ \A i \in 1..N : fut[i].st \in {"queued", "running"}

\* the steps a future may take within one call
FutureSteps == {<<"none", "queued">>, <<"queued", "running">>, <<"running", "done">>}

\* C13: within one call a tile's future only moves none -> queued -> running
\* -> done, fetch_tile sends one request per tile and call, a settled future
\* is never changed, and neither is the gathered or the returned collection.
C13_SettledOnce ==
    [][call' = call =>
        /\ \A i \in 1..N :
             /\ fut'[i].st # fut[i].st => <<fut[i].st, fut'[i].st>> \in FutureSteps
             /\ fut[i].st = "done" => fut'[i] = fut[i]
             /\ Len(requests'[i]) <= call
             /\ fut'[i].st = "done" => Len(requests'[i]) = call
        /\ pc \in {"log", "done"} => gathered' = gathered
        /\ Returned => ret' = ret]_vars

\* fetch_tiles returned a batch in which one retrieval failed and one succeeded
C13_Witness ==
    /\ pc = "done"
    /\ \E i, j \in 1..N :
         /\ StatusCoded(fut[i].outcome) /\ Len(requests[i]) = 1
         /\ Succeeded(fut[j].outcome) /\ Len(requests[j]) = 1

\* t is d with at most img and error replaced
SameButImageError(t, d) ==
    /\ IsTileResult(t)
    /\ t.coordinate = d.coordinate
    /\ t.url = d.url

\* C15: no step changes the input tiles; the tile a pool thread works on is
\* the input tile; and each value fetch_tile returns, and each element of a
\* returned collection, has the coordinate and url of its input tile.
C15_DescriptorUntouched ==
    /\ [][tiles' = tiles]_vars
    /\ [](\A i \in 1..N :
            /\ fut[i].st # "none" =>
                 (fut[i].task.arg = tiles[i] /\ tiles[i] \in Descriptors)
            /\ (Done(i) /\ fut[i].res.kind = "return") =>
                 SameButImageError(fut[i].res.value, tiles[i])
            /\ Returned => SameButImageError(Result[i], tiles[i]))

\* fetch_tiles returned a success and a status-coded failure
C15_Witness ==
    /\ pc = "done"
    /\ \E i, j \in 1..N : Result[i].img # None /\ Result[j].error # None

\* the collection gather gives for the outcomes the retrievals had
ExpectedGathered == [i \in 1..N |-> GatherItem(fetch_tile(tiles[i], fut[i].outcome))]

\* the warnings of the first k gathered items, in input order
RECURSIVE ExpectedLog(_)
ExpectedLog(k) ==
    IF k = 0 THEN <<>>
    ELSE ExpectedLog(k - 1) \o LogEntries(ExpectedGathered[k])

\* C17: nothing is logged before every retrieval has settled; the gathered
\* and the returned collection are functions of the input and the outcomes
\* alone; and the log is the warnings of the items the loop has passed, in
\* input order.
C17_OrderIndependent ==
    /\ pc \in {"submit", "await"} => log = <<>>
    /\ log # <<>> => AllSettled
    /\ pc \in {"log", "done"} =>
         /\ gathered = ExpectedGathered
         /\ log = ExpectedLog(logIdx - 1)
    /\ Returned => (Result = ExpectedGathered /\ log = ExpectedLog(N))

\* fetch_tiles returned after logging two warnings for two different tiles
C17_Witness ==
    /\ pc = "done"
    /\ Len(log) = 2
    /\ \E i, j \in 1..N :
         /\ i < j
         /\ tiles[i].url # tiles[j].url
         /\ Contains(log[1], tiles[i].url)
         /\ Contains(log[2], tiles[j].url)

\* C16: a new call starts with no future, no gathered list, no result and no
\* log of the call before; in every call each tile's request is sent again,
\* exactly when that call's retrieval starts; and what a call gathers and
\* returns is a function of the input and of that call's outcomes alone.
C16_NoStateBetweenCalls ==
    /\ [][call' # call =>
            /\ pc' = "submit" /\ submitted' = 0
            /\ \A i \in 1..N : fut'[i] = NoFuture
            /\ gathered' = <<>> /\ log' = <<>> /\ ret' = None /\ raised' = None]_vars
    /\ [](/\ \A i \in 1..N :
               /\ Len(requests[i]) \in {call - 1, call}
               /\ Len(requests[i]) = call <=> fut[i].st \in {"running", "done"}
          /\ pc \in {"log", "done"} => gathered = ExpectedGathered
          /\ Returned =>
               /\ Result = ExpectedGathered
               /\ \A i \in 1..N : Len(requests[i]) = call)

\* the second call on a batch of two tiles has returned
C16_Witness ==
    /\ call = 2
    /\ pc = "done"
    /\ N >= 2
    /\ \A i \in 1..N : Len(requests[i]) = 2

\* every fair run of a call comes to its end, by a return or by an exception,
\* and every queued retrieval is started
Terminates ==
    /\ <>Finished
    /\ \A i \in 1..MaxTiles :
         (i \in DOMAIN fut /\ fut[i].st = "queued")
             ~> (i \in DOMAIN fut /\ fut[i].st \in {"running", "done"})

\* C14: when the pool is fair and every retrieval that runs succeeds or
\* fails, the call of fetch_tiles eventually returns, unless the executor
\* refused a submission.
C14_EventuallyReturns == <>(Returned \/ SchedulingFailed)

\* ------------------------------------------------------------------------
\* geotiler.provider.MapProvider, as tests/test_provider.py uses it
\* ------------------------------------------------------------------------
\* fetch_tiles is not running
FetchIdle ==
    /\ tiles = <<>>
    /\ downloader = "default"
    /\ pc = "idle"
    /\ submitted = 0
    /\ fut = <<>>
    /\ requests = <<>>
    /\ gathered = <<>>
    /\ logIdx = 1
    /\ log = <<>>
    /\ ret = None
    /\ raised = None
    /\ call = 1

\* the keys every configuration has, with the values of the tests and a
\* second value each for id and url
RequiredData ==
    [id : {"osm", "stamen-toner"},
     name : {"OpenStreetMap"},
     attribution : {"(c) OpenStreetMap contributors"},
     url : {"http://{subdomain}.tile.openstreetmap.org/{z}/{x}/{y}.{ext}",
            "http://tile.stamen.com/toner/{z}/{x}/{y}.{ext}"}]

\* one optional key: absent, or present with one of the values
OptionalKey(k, values) == {<<>>} \cup {k :> v : v \in values}

\* the configuration mappings a provider is built from
Configs ==
    {req @@ sub @@ ext @@ lim :
        req \in RequiredData,
        sub \in OptionalKey("subdomains", {<<>>, <<"a", "b", "c">>}),
        ext \in OptionalKey("extension", {"png", "jpg"}),
        lim \in OptionalKey("limit", {1, 2})}

\* dict.get(k, default)
Get(d, k, default) == IF k \in DOMAIN d THEN d[k] ELSE default

\* a provider whose optional attributes ignore the configuration
MapProvider_DefaultsOnly(data) ==
    [id |-> data["id"],
     name |-> data["name"],
     attribution |-> data["attribution"],
     url |-> data["url"],
     subdomains |-> <<>>,
     extension |-> "png",
     limit |-> 1]

\* MapProvider(data)
MapProvider(data) ==
    [id |-> data["id"],
     name |-> data["name"],
     attribution |-> data["attribution"],
     url |-> data["url"],
     subdomains |-> Get(data, "subdomains", <<>>),
     extension |-> Get(data, "extension", "png"),
     limit |-> Get(data, "limit", 1)]

InitProvider ==
    /\ config \in Configs
    /\ provider = None
    /\ FetchIdle /\ QtIdle /\ CvIdle

\* provider = MapProvider(data)
BuildProvider ==
    /\ provider = None
    /\ provider' = Some(MapProvider(config))
    /\ UNCHANGED <<config, fetchVars, qtVars, cvVars>>

NextProvider == BuildProvider

SpecProvider == InitProvider /\ [][NextProvider]_vars

\* C11: a provider built from a configuration has the configured id, name,
\* attribution and url; its subdomains, extension and limit are the
\* configured ones when the configuration has them, and (), 'png' and 1
\* otherwise.
C11_ProviderAttributes ==
    provider # None =>
        /\ The(provider).id = config["id"]
        /\ The(provider).name = config["name"]
        /\ The(provider).attribution = config["attribution"]
        /\ The(provider).url = config["url"]
        /\ IF "subdomains" \in DOMAIN config
           THEN The(provider).subdomains = config["subdomains"]
           ELSE The(provider).subdomains = <<>>
        /\ IF "extension" \in DOMAIN config
           THEN The(provider).extension = config["extension"]
           ELSE The(provider).extension = "png"
        /\ IF "limit" \in DOMAIN config
           THEN The(provider).limit = config["limit"]
           ELSE The(provider).limit = 1

\* the provider of test_provider_init_default_override is built: every
\* optional key is configured, with values other than the defaults
C11_Witness ==
    /\ provider # None
    /\ DOMAIN config = {"id", "name", "attribution", "url",
                        "subdomains", "extension", "limit"}
    /\ The(provider).subdomains = <<"a", "b", "c">>
    /\ The(provider).extension = "jpg"
    /\ The(provider).limit = 2

\* ------------------------------------------------------------------------
\* examples/ex-qt-gps.py: the refresh event
\* ------------------------------------------------------------------------
\* keys of keyPressEvent: the four that change the map, q, and any other key
Keys == {"minus", "plus", "n", "p", "q", "other"}
ChangesMap(k) == k \in {"minus", "plus", "n", "p"}

\* asyncio.Event.set(): the flag and the number of set() calls since clear()
EventSet(st) == [st EXCEPT !.event = TRUE, !.pendingSets = @ + 1]

\* scroll_map, lines 78-83, on the state st = [event, pendingSets, mapVersion]:
\* outside the map image the map is re-centred and a refresh is requested
scroll_map(st, within) ==
    IF within THEN st
    ELSE EventSet([st EXCEPT !.mapVersion = @ + 1])

\* keyPressEvent, lines 196-212
keyPressEvent(st, k, within) ==
    EventSet(scroll_map(IF ChangesMap(k) THEN [st EXCEPT !.mapVersion = @ + 1] ELSE st,
                        within))

QtState == [event |-> event, pendingSets |-> pendingSets, mapVersion |-> mapVersion]

\* input arrives while the loop runs; the model stops it after MaxRenders
\* renders and MaxSets pending requests
InputArrives(sets) ==
    /\ ~stopped
    /\ rpc # "idle"
    /\ renders < MaxRenders
    /\ pendingSets + sets <= MaxSets

InitQt ==
    /\ event = FALSE
    /\ rpc = "wait"
    /\ pendingSets = 0
    /\ mapVersion = 0
    /\ snapshot = 0
    /\ renders = 0
    /\ stopped = FALSE
    /\ FetchIdle /\ ProvIdle /\ CvIdle

\* MapWindow.keyPressEvent
KeyPress ==
    /\ InputArrives(2)
    /\ \E k \in Keys, within \in BOOLEAN :
         /\ event' = keyPressEvent(QtState, k, within).event
         /\ pendingSets' = keyPressEvent(QtState, k, within).pendingSets
         /\ mapVersion' = keyPressEvent(QtState, k, within).mapVersion
         /\ stopped' = (k = "q")
    /\ UNCHANGED <<rpc, snapshot, renders>>
    /\ UNCHANGED <<fetchVars, provVars, cvVars>>

\* locate, lines 142-144: a GPS position arrives
Locate ==
    /\ InputArrives(1)
    /\ \E within \in BOOLEAN :
         /\ event' = scroll_map(QtState, within).event
         /\ pendingSets' = scroll_map(QtState, within).pendingSets
         /\ mapVersion' = scroll_map(QtState, within).mapVersion
    /\ UNCHANGED <<rpc, snapshot, renders, stopped>>
    /\ UNCHANGED <<fetchVars, provVars, cvVars>>

\* MapWindow.resizeEvent, lines 215-222
Resize ==
    /\ InputArrives(1)
    /\ \E within \in BOOLEAN :
         /\ event' = scroll_map(QtState, within).event
         /\ pendingSets' = scroll_map(QtState, within).pendingSets
         /\ mapVersion' = scroll_map(QtState, within).mapVersion
    /\ UNCHANGED <<rpc, snapshot, renders, stopped>>
    /\ UNCHANGED <<fetchVars, provVars, cvVars>>

\* refresh_map, lines 124-127: wait() returns, the event is cleared and the
\* render of the map as it is now starts
Wake ==
    /\ ~stopped
    /\ rpc = "wait"
    /\ event
    /\ event' = FALSE
    /\ pendingSets' = 0
    /\ rpc' = "render"
    /\ snapshot' = mapVersion
    /\ renders' = renders + 1
    /\ UNCHANGED <<mapVersion, stopped>>
    /\ UNCHANGED <<fetchVars, provVars, cvVars>>

\* the render ends and clears the event afterwards
RenderDone_Clears ==
    /\ ~stopped
    /\ rpc = "render"
    /\ rpc' = "wait"
    /\ event' = FALSE
    /\ pendingSets' = 0
    /\ UNCHANGED <<mapVersion, snapshot, renders, stopped>>
    /\ UNCHANGED <<fetchVars, provVars, cvVars>>

\* refresh_map, lines 127-129: the render ends, the pixmap is set, the loop
\* goes back to wait()
RenderDone ==
    /\ ~stopped
    /\ rpc = "render"
    /\ rpc' = "wait"
    /\ UNCHANGED <<event, pendingSets, mapVersion, snapshot, renders, stopped>>
    /\ UNCHANGED <<fetchVars, provVars, cvVars>>

NextQt ==
    \/ KeyPress
    \/ Locate
    \/ Resize
    \/ Wake
    \/ RenderDone

\* the event loop resumes refresh_map when its event is set, and a render
\* that was started ends
SpecQt == InitQt /\ [][NextQt]_vars /\ WF_vars(Wake) /\ WF_vars(RenderDone)

\* C18: the event is set exactly while set() calls are pending, and it is set
\* whenever the map differs from the one the latest render started from; a
\* render starts by clearing the event, takes all pending set() calls at once
\* and renders the map as it is then; and, while the loop is not stopped,
\* whenever the event is set, also during a render, a further render starts.
C18_RefreshNeverLost ==
    /\ [](/\ event <=> pendingSets > 0
          /\ mapVersion # snapshot => event)
    /\ [][renders' # renders =>
            /\ renders' = renders + 1
            /\ event /\ ~event'
            /\ pendingSets' = 0
            /\ snapshot' = mapVersion]_vars
    /\ \A n \in 0..MaxRenders :
         (event /\ renders = n) ~> (renders = n + 1 \/ stopped)

\* a render is in progress and two set() calls have arrived since it started
C18_Witness ==
    /\ rpc = "render"
    /\ renders >= 1
    /\ pendingSets >= 2
    /\ mapVersion # snapshot

\* ------------------------------------------------------------------------
\* examples/ex-opencv.py: zooming
\* ------------------------------------------------------------------------
\* the limits zoom_in and zoom_out test
ZoomMax == 19
ZoomMin == 3

\* zoom_in without its test
zoom_in_NoLimit(z) == z + 1

\* zoom_in, lines 103-104: the zoom after the call
zoom_in(z) == IF z < ZoomMax THEN z + 1 ELSE z

\* zoom_out, lines 114-115: the zoom after the call
zoom_out(z) == IF z > ZoomMin THEN z - 1 ELSE z

\* what the window reports to mouse_callback: the event and the wheel's flag
MouseEvents == {"EVENT_MOUSEWHEEL", "EVENT_LBUTTONUP", "EVENT_RBUTTONUP", "EVENT_MOUSEMOVE"}
Flags == {-1, 0, 1}

\* MapObject(zoom=z): the constructor renders the map once
InitCv ==
    /\ zoom \in ZoomMin..ZoomMax
    /\ zoomBefore = zoom
    /\ updates = 1
    /\ lastCall = "__init__"
    /\ FetchIdle /\ ProvIdle /\ QtIdle

\* MapObject.zoom_in, lines 97-105, from the + key or the wheel
ZoomIn ==
    /\ updates < MaxUpdates
    /\ zoomBefore' = zoom
    /\ zoom' = zoom_in(zoom)
    /\ updates' = updates + 1
    /\ lastCall' = "zoom_in"
    /\ UNCHANGED <<fetchVars, provVars, qtVars>>

\* zoom_out that renders only when the zoom changed
ZoomOut_RenderOnChange ==
    /\ updates < MaxUpdates
    /\ zoomBefore' = zoom
    /\ zoom' = zoom_out(zoom)
    /\ updates' = IF zoom' # zoom THEN updates + 1 ELSE updates
    /\ lastCall' = "zoom_out"
    /\ UNCHANGED <<fetchVars, provVars, qtVars>>

\* MapObject.zoom_out, lines 108-116, from the - key or the wheel
ZoomOut ==
    /\ updates < MaxUpdates
    /\ zoomBefore' = zoom
    /\ zoom' = zoom_out(zoom)
    /\ updates' = updates + 1
    /\ lastCall' = "zoom_out"
    /\ UNCHANGED <<fetchVars, provVars, qtVars>>

\* the main loop, lines 174-182: the + and the - key
KeyCv == ZoomIn \/ ZoomOut

\* MapObject.mouse_callback, lines 131-159
MouseCallback ==
    \E e \in MouseEvents, flag \in Flags :
         IF e = "EVENT_MOUSEWHEEL" /\ flag > 0 THEN ZoomIn
         ELSE IF e = "EVENT_MOUSEWHEEL" /\ flag < 0 THEN ZoomOut
         ELSE IF e \in {"EVENT_LBUTTONUP", "EVENT_RBUTTONUP"}
         THEN /\ lastCall' = "mouse_button"
              /\ zoomBefore' = zoom
              /\ UNCHANGED <<zoom, updates>>
              /\ UNCHANGED <<fetchVars, provVars, qtVars>>
         ELSE UNCHANGED vars

NextCv ==
    \/ KeyCv
    \/ MouseCallback

SpecCv == InitCv /\ [][NextCv]_vars

\* C19: the zoom stays in [3, 19]; zoom_in adds one below 19 and leaves 19
\* as it is, zoom_out takes one off above 3 and leaves 3 as it is; and every
\* zoom_in and zoom_out call is one more update_map call, whether or not the
\* zoom changed.
C19_ZoomBounded ==
    /\ [](/\ zoom \in ZoomMin..ZoomMax
          /\ lastCall = "zoom_in" =>
               zoom = IF zoomBefore = ZoomMax THEN ZoomMax ELSE zoomBefore + 1
          /\ lastCall = "zoom_out" =>
               zoom = IF zoomBefore = ZoomMin THEN ZoomMin ELSE zoomBefore - 1)
    /\ [][lastCall' \in {"zoom_in", "zoom_out"} => updates' = updates + 1]_vars

\* zoom_in ran at 19 and zoom_out ran at 3: the zoom is unchanged and the map
\* was rendered again
C19_Witness ==
    /\ lastCall = "zoom_in"
    /\ zoomBefore = ZoomMax
    /\ zoom = ZoomMax
    /\ updates >= 2

====
